---- MODULE Spec2Model ----
(***************************************************************************)
(* The disruption overlay, the effective-graph builder and the router of   *)
(* the freight routing engine (freight_simulation/simulation.py,           *)
(* models.py).                                                             *)
(*                                                                         *)
(* Number representation.  The program computes on Python floats.  Here    *)
(* every hour / ton / USD quantity and every weather severity is held as   *)
(* an integer count of quarters (Q(x) = 4*x), which is exact for the       *)
(* inputs enumerated below (whole hours, severities that are multiples of  *)
(* one half).  Coordinates are held in half-degrees (HalfDeg(x) = 2*x) so  *)
(* that the midpoint of two whole-degree nodes is exact.  The objective    *)
(* weights are the rationals duration/den, emissions/den, cost/den.        *)
(***************************************************************************)
EXTENDS Integers, Sequences, FiniteSets, TLC

VARIABLES nodes, edges, weather_grid, pain_points, weights, graph,
          current_route, initialized, last, handlers

vars == <<nodes, edges, weather_grid, pain_points, weights, graph,
          current_route, initialized, last, handlers>>

\* ------------------------------------------------------------------ bounds
\* longest pain-point list the model lets add_pain_point build
MaxPainPoints == 2
\* largest denominator of the normalised weights the model follows
MaxWeightDen == 2
\* mutations one request handler takes
MaxRequests == 1

\* ------------------------------------------------------- program constants
WEATHER_GRID_SIZE == 5
MAX_DELAY == 24
max_duration == 100
max_emissions == 1000
max_cost == 5000

\* --------------------------------------------------------- representation
Q(x) == 4 * x
HalfDeg(x) == 2 * x

Max(a, b) == IF a >= b THEN a ELSE b
Min(a, b) == IF a <= b THEN a ELSE b
Abs(a) == IF a >= 0 THEN a ELSE 0 - a

RECURSIVE GCD(_, _)
GCD(a, b) == IF b = 0 THEN a ELSE GCD(b, a % b)

\* Python's int(a / b) for b > 0: truncation toward zero.
TruncDiv(a, b) == IF a >= 0 THEN a \div b ELSE 0 - ((0 - a) \div b)

\* ------------------------------------------------------- the fixed network
NodeIds == {"A", "B", "C"}
UnknownId == "Z"

NodeLat == [A |-> 0 - 1, B |-> 1, C |-> 11]
NodeLon == [A |-> 0, B |-> 0, C |-> 0]

\* Node.__init__: delay 0, not blocked.
Node(id) == [lat |-> HalfDeg(NodeLat[id]), lon |-> HalfDeg(NodeLon[id]),
             delay |-> 0, blocked |-> FALSE]

\* Edge.__init__: the current values start as the base values, impact 0.
Edge(source, destination, mode, duration, emissions, cost) ==
    [source |-> source, destination |-> destination, mode |-> mode,
     base_duration |-> Q(duration), base_emissions |-> Q(emissions),
     base_cost |-> Q(cost),
     current_duration |-> Q(duration), current_emissions |-> Q(emissions),
     current_cost |-> Q(cost), weather_impact |-> 0]

InitialEdges ==
    << Edge("A", "B", "flight", 1, 1, 1),
       Edge("B", "C", "flight", 1, 1, 1),
       Edge("A", "C", "flight", 4, 4, 4),
       Edge("A", "B", "ship", 3, 1, 1),
       Edge("C", "B", "ship", 2, 1, 1) >>

\* ------------------------------------------------------------ WeatherGrid
\* WeatherGrid.get_block_key; lat and lon in half-degrees.
get_block_key(lat, lon) ==
    << TruncDiv(lat, HalfDeg(WEATHER_GRID_SIZE)) * WEATHER_GRID_SIZE,
       TruncDiv(lon, HalfDeg(WEATHER_GRID_SIZE)) * WEATHER_GRID_SIZE >>

\* The validation of WeatherGrid.set_severity.
SeverityValid(severity) == ~(severity < 0 \/ severity > Q(1))

\* set_severity keyed by the point's own whole degrees instead of its block.
set_severity_raw_key(grid, lat, lon, severity) ==
    LET key == << TruncDiv(lat, HalfDeg(1)), TruncDiv(lon, HalfDeg(1)) >>
    IN  [k \in DOMAIN grid \cup {key} |-> IF k = key THEN severity ELSE grid[k]]

\* WeatherGrid.set_severity, past its validation: grid[key] = severity.
set_severity(grid, lat, lon, severity) ==
    LET key == get_block_key(lat, lon)
    IN  [k \in DOMAIN grid \cup {key} |-> IF k = key THEN severity ELSE grid[k]]

\* WeatherGrid.get_severity: grid.get(key, 0.0).
get_severity(grid, lat, lon) ==
    LET key == get_block_key(lat, lon)
    IN  IF key \in DOMAIN grid THEN grid[key] ELSE 0

\* ------------------------------------------------------------------- Edge
\* update_values with the duration factor applied to the cost as well.
update_values_same_factor(e, weather_impact) ==
    [e EXCEPT !.weather_impact = weather_impact,
              !.current_duration = (e.base_duration * (Q(1) + 2 * weather_impact)) \div Q(1),
              !.current_emissions = (e.base_emissions * (Q(1) + 2 * weather_impact)) \div Q(1),
              !.current_cost = (e.base_cost * (Q(1) + 2 * weather_impact)) \div Q(1)]

\* Edge.update_values(weather_impact):
\*   weather_factor = 1 + 2*impact, cost_factor = 1 + 1.5*impact.
update_values(e, weather_impact) ==
    [e EXCEPT !.weather_impact = weather_impact,
              !.current_duration = (e.base_duration * (Q(1) + 2 * weather_impact)) \div Q(1),
              !.current_emissions = (e.base_emissions * (Q(1) + 2 * weather_impact)) \div Q(1),
              !.current_cost = (e.base_cost * (Q(2) + 3 * weather_impact)) \div Q(2)]

\* ------------------------------------------------------------ _build_graph
\* The skip test looking at the source only.
SkipEdge_source_only(ns, e) == ns[e.source].blocked

\* "Skip edges where source or destination is blocked"
SkipEdge(ns, e) == ns[e.source].blocked \/ ns[e.destination].blocked

\* The weather severity sampled at the midpoint of the edge's endpoints.
MidpointSeverity(ns, grid, e) ==
    get_severity(grid,
                 (ns[e.source].lat + ns[e.destination].lat) \div 2,
                 (ns[e.source].lon + ns[e.destination].lon) \div 2)

\* self.edges after the loop: every edge that is not skipped has had
\* update_values applied; a skipped edge keeps its earlier current values.
BuiltEdges(ns, grid, es) ==
    [i \in DOMAIN es |->
        IF SkipEdge(ns, es[i]) THEN es[i]
        ELSE update_values(es[i], MidpointSeverity(ns, grid, es[i]))]

\* The attribute dict with the delay of the destination node in the duration.
EdgeData_destination_delay(ns, e) ==
    [mode |-> e.mode,
     duration |-> e.current_duration + ns[e.destination].delay,
     emissions |-> e.current_emissions,
     cost |-> e.current_cost,
     weather_impact |-> e.weather_impact]

\* The attribute dict graph.add_edge stores for an (updated) edge.
EdgeData(ns, e) ==
    [mode |-> e.mode,
     duration |-> e.current_duration + ns[e.source].delay,
     emissions |-> e.current_emissions,
     cost |-> e.current_cost,
     weather_impact |-> e.weather_impact]

\* The DiGraph adjacency after the first k edges of the loop.  A DiGraph
\* holds one attribute dict per ordered pair: add_edge on a pair that is
\* already present overwrites its attributes.
RECURSIVE BuiltAdj(_, _, _)
BuiltAdj(ns, es, k) ==
    IF k = 0 THEN [p \in {} |-> 0]
    ELSE LET prev == BuiltAdj(ns, es, k - 1)
             e == es[k]
             uv == <<e.source, e.destination>>
         IN  IF SkipEdge(ns, e) THEN prev
             ELSE [p \in DOMAIN prev \cup {uv} |->
                      IF p = uv THEN EdgeData(ns, e) ELSE prev[p]]

\* The graph _build_graph leaves: the node attributes (Node.to_dict; the
\* immutable fields are left out) and the adjacency.
BuiltGraph(ns, grid, es) ==
    [node |-> [n \in DOMAIN ns |-> [delay |-> ns[n].delay, blocked |-> ns[n].blocked]],
     adj |-> BuiltAdj(ns, BuiltEdges(ns, grid, es), Len(es))]

\* FreightSimulation._build_graph, run on the state the caller has just
\* written (ns, grid).
build_graph(ns, grid) ==
    /\ edges' = BuiltEdges(ns, grid, edges)
    /\ graph' = BuiltGraph(ns, grid, edges)

\* ------------------------------------------------------------------ inputs
NodeArgs == {"B", UnknownId}
Points == { <<0 - 1, 0>>, <<1, 0>>, <<6, 0>>, <<1, 0 - 1>> }
SeverityArgs == {0 - 2, 2, 4, 6}
DelayHoursArgs == {0 - 5, 12, 30}
\* <<delay_increase, blocked>>: a delay event and a blocking event
PainPointArgs == { <<12, FALSE>>, <<0, TRUE>> }
IndexArgs == (0 - 1) .. MaxPainPoints
WeightArgs == { <<>>, <<0>>, <<1>> }

\* The record of the latest call: its name, the node id it named (for
\* remove_pain_point: the node of the entry it removed) and what it returned
\* or raised.
Call(op, node, ret) ==
    [op |-> op, node |-> node, ret |-> ret]

\* ------------------------------------------------------------------- Init
\* The state after __init__ and initialize() on the fixed network.
InitNodes == [id \in NodeIds |-> Node(id)]

\* Python's None where a route dict is expected (current_route = None).
None ==
    [path |-> <<>>, edges |-> <<>>,
     metrics |-> [duration |-> 0, emissions |-> 0, cost |-> 0, total_nodes |-> 0]]

\* The request handlers of the threaded server that can run at once, and
\* the locals of one that is between requests (served counts the mutations
\* it has taken).
Handlers == {1, 2}
IdleHandler == [pc |-> "idle", op |-> "", node |-> "", inc |-> 0, tmp |-> 0, k |-> 0,
                served |-> 0]
AllIdle == [h \in Handlers |-> IdleHandler]

Init ==
    /\ handlers = AllIdle
    /\ nodes = InitNodes
    /\ weather_grid = [k \in {} |-> 0]
    /\ pain_points = <<>>
    /\ weights = [duration |-> 4, emissions |-> 3, cost |-> 3, den |-> 10]
    /\ edges = BuiltEdges(InitNodes, [k \in {} |-> 0], InitialEdges)
    /\ graph = BuiltGraph(InitNodes, [k \in {} |-> 0], InitialEdges)
    /\ current_route = None
    /\ initialized = TRUE
    /\ last = Call("initialize", "", "None")

\* ---------------------------------------------------------- update_weather
\* update_weather whose grid write precedes the range check.
update_weather_write_first(lat, lon, severity) ==
    IF ~SeverityValid(severity)
    THEN /\ weather_grid' = set_severity(weather_grid, HalfDeg(lat), HalfDeg(lon), severity)
         /\ last' = Call("update_weather", "", "ValueError")
         /\ UNCHANGED <<nodes, edges, pain_points, weights, graph, current_route, initialized, handlers>>
    ELSE /\ weather_grid' = set_severity(weather_grid, HalfDeg(lat), HalfDeg(lon), severity)
         /\ last' = Call("update_weather", "", "None")
         /\ UNCHANGED <<nodes, pain_points, weights, current_route, initialized, handlers>>
         /\ build_graph(nodes, weather_grid')

\* set_severity raises ValueError before it writes anything, and then
\* update_weather does not reach _build_graph.
update_weather(lat, lon, severity) ==
    IF ~SeverityValid(severity)
    THEN /\ last' = Call("update_weather", "", "ValueError")
         /\ UNCHANGED <<nodes, edges, weather_grid, pain_points, weights, graph, current_route, initialized, handlers>>
    ELSE /\ weather_grid' = set_severity(weather_grid, HalfDeg(lat), HalfDeg(lon), severity)
         /\ last' = Call("update_weather", "", "None")
         /\ UNCHANGED <<nodes, pain_points, weights, current_route, initialized, handlers>>
         /\ build_graph(nodes, weather_grid')

\* ------------------------------------------------------- update_port_delay
\* max(0, min(24, delay_hours))
ClampDelay(delay_hours) == Max(0, Min(Q(MAX_DELAY), delay_hours))

\* update_port_delay that leaves the rebuild to a later call.
update_port_delay_no_rebuild(node_id, delay_hours) ==
    IF node_id \in DOMAIN nodes
    THEN /\ nodes' = [nodes EXCEPT ![node_id].delay = ClampDelay(Q(delay_hours))]
         /\ last' = Call("update_port_delay", node_id, "None")
         /\ UNCHANGED <<edges, weather_grid, pain_points, weights, graph, current_route, initialized, handlers>>
    ELSE /\ last' = Call("update_port_delay", node_id, "None")
         /\ UNCHANGED <<nodes, edges, weather_grid, pain_points, weights, graph, current_route, initialized, handlers>>

update_port_delay(node_id, delay_hours) ==
    IF node_id \in DOMAIN nodes
    THEN /\ nodes' = [nodes EXCEPT ![node_id].delay = ClampDelay(Q(delay_hours))]
         /\ last' = Call("update_port_delay", node_id, "None")
         /\ UNCHANGED <<weather_grid, pain_points, weights, current_route, initialized, handlers>>
         /\ build_graph(nodes', weather_grid)
    ELSE /\ last' = Call("update_port_delay", node_id, "None")
         /\ UNCHANGED <<nodes, edges, weather_grid, pain_points, weights, graph, current_route, initialized, handlers>>

\* ---------------------------------------------------------- add_pain_point
PainPoint(node_id, event_type, name, delay_increase, blocked) ==
    [node_id |-> node_id, event_type |-> event_type, name |-> name,
     delay_increase |-> Q(delay_increase), blocked |-> blocked]

\* "Apply pain point effects": delay += delay_increase; blocked = blocked.
ApplyPainPoint(ns, pp) ==
    [ns EXCEPT ![pp.node_id].delay = @ + pp.delay_increase,
               ![pp.node_id].blocked = pp.blocked]

add_pain_point(node_id, event_type, name, delay_increase, blocked) ==
    IF node_id \notin DOMAIN nodes
    THEN /\ last' = Call("add_pain_point", node_id, "False")
         /\ UNCHANGED <<nodes, edges, weather_grid, pain_points, weights, graph, current_route, initialized, handlers>>
    ELSE LET pain_point == PainPoint(node_id, event_type, name, delay_increase, blocked)
         IN  /\ Len(pain_points) < MaxPainPoints
             /\ pain_points' = Append(pain_points, pain_point)
             /\ nodes' = ApplyPainPoint(nodes, pain_point)
             /\ last' = Call("add_pain_point", node_id, "True")
             /\ UNCHANGED <<weather_grid, weights, current_route, initialized, handlers>>
             /\ build_graph(nodes', weather_grid)

\* ------------------------------------------------------- remove_pain_point
\* A removal that always takes the entry at the end of the list.
Pop_last(s, index) == [j \in 1 .. (Len(s) - 1) |-> s[j]]

\* list.pop(index)
Pop(s, index) == [j \in 1 .. (Len(s) - 1) |-> IF j <= index THEN s[j] ELSE s[j + 1]]

\* "Check if another pain point is still blocking this node"
StillBlocked(pps, node_id) ==
    \E j \in DOMAIN pps : pps[j].node_id = node_id /\ pps[j].blocked

\* The reversal without the scan of the remaining pain points.
ReversePainPoint_no_scan(ns, pp, remaining) ==
    [ns EXCEPT ![pp.node_id].delay = @ - pp.delay_increase,
               ![pp.node_id].blocked = FALSE]

\* "Reverse pain point effects", given the list that remains.
ReversePainPoint(ns, pp, remaining) ==
    [ns EXCEPT ![pp.node_id].delay = @ - pp.delay_increase,
               ![pp.node_id].blocked = StillBlocked(remaining, pp.node_id)]

\* index is the 0-based Python index.
remove_pain_point(index) ==
    IF 0 <= index /\ index < Len(pain_points)
    THEN LET pain_point == pain_points[index + 1]
             remaining == Pop(pain_points, index)
         IN  /\ pain_points' = remaining
             /\ nodes' = ReversePainPoint(nodes, pain_point, remaining)
             /\ last' = Call("remove_pain_point", pain_point.node_id, "True")
             /\ UNCHANGED <<weather_grid, weights, current_route, initialized, handlers>>
             /\ build_graph(nodes', weather_grid)
    ELSE /\ last' = Call("remove_pain_point", "", "False")
         /\ UNCHANGED <<nodes, edges, weather_grid, pain_points, weights, graph, current_route, initialized, handlers>>

\* ---------------------------------------------------------- update_weights
\* An argument is <<>> (None) or <<v>>.
SetWeight(old, arg, den) == IF arg # <<>> THEN arg[1] * den ELSE old

\* The same three rationals over their least common denominator.
Reduce(w) ==
    LET g == GCD(GCD(GCD(Abs(w.duration), Abs(w.emissions)), Abs(w.cost)), w.den)
    IN  [duration |-> w.duration \div g, emissions |-> w.emissions \div g,
         cost |-> w.cost \div g, den |-> w.den \div g]

\* "Normalize weights to sum to 1": total = sum(values); if total > 0,
\* every weight is divided by total.
Normalize(w) ==
    LET total == w.duration + w.emissions + w.cost
    IN  IF total > 0 THEN [w EXCEPT !.den = total] ELSE w

UpdatedWeights(w, duration, emissions, cost) ==
    Reduce(Normalize([duration |-> SetWeight(w.duration, duration, w.den),
                      emissions |-> SetWeight(w.emissions, emissions, w.den),
                      cost |-> SetWeight(w.cost, cost, w.den),
                      den |-> w.den]))

update_weights(duration, emissions, cost) ==
    /\ UpdatedWeights(weights, duration, emissions, cost).den <= MaxWeightDen
    /\ weights' = UpdatedWeights(weights, duration, emissions, cost)
    /\ last' = Call("update_weights", "", "None")
    /\ UNCHANGED <<nodes, edges, weather_grid, pain_points, graph, current_route, initialized, handlers>>

\* -------------------------------------------------------------------- Next
UpdateWeather == \E p \in Points, s \in SeverityArgs : update_weather(p[1], p[2], s)
UpdatePortDelay == \E n \in NodeArgs, h \in DelayHoursArgs : update_port_delay(n, h)
AddPainPoint ==
    \E n \in NodeArgs, a \in PainPointArgs :
        add_pain_point(n, "strike", "Dock strike", a[1], a[2])
RemovePainPoint == \E i \in IndexArgs : remove_pain_point(i)
UpdateWeights == \E d \in WeightArgs, e \in WeightArgs, c \in WeightArgs : update_weights(d, e, c)

Next ==
    \/ UpdateWeather
    \/ UpdatePortDelay
    \/ AddPainPoint
    \/ RemovePainPoint
    \/ UpdateWeights

Spec == Init /\ [][Next]_vars

\* ---------------------------------------- find_shortest_path.weight_function
\* weights.duration * duration/max_duration + weights.emissions *
\* emissions/max_emissions + weights.cost * cost/max_cost, as the numerator
\* over the positive denominator WeightFunctionDen.
weight_function(w, edge_data) ==
      w.duration * edge_data.duration * (max_cost \div max_duration)
    + w.emissions * edge_data.emissions * (max_cost \div max_emissions)
    + w.cost * edge_data.cost

WeightFunctionDen(w) == w.den * Q(1) * max_cost

\* ------------------------------------------------------- nx.dijkstra_path
\* The order in which node v's adjacency dict lists its successors, over
\* the first k edges of the edge list.  _build_graph inserts the pairs in
\* the order of the edge list; a dict keeps a key at the position of its
\* first insertion, and overwriting a pair does not move it.
RECURSIVE Successors(_, _, _, _)
Successors(adj, es, v, k) ==
    IF k = 0 THEN <<>>
    ELSE LET prev == Successors(adj, es, v, k - 1)
             e == es[k]
         IN  IF \/ e.source # v
                \/ <<e.source, e.destination>> \notin DOMAIN adj
                \/ \E j \in DOMAIN prev : prev[j] = e.destination
             THEN prev
             ELSE Append(prev, e.destination)

\* self.graph as the search walks it: the adjacency with its iteration order.
Ordered(g, es) ==
    [node |-> g.node, adj |-> g.adj,
     succ |-> [n \in DOMAIN g.node |-> Successors(g.adj, es, n, Len(es))]]

\* dict[k] = v
MapPut(f, k, v) == [x \in DOMAIN f \cup {k} |-> IF x = k THEN v ELSE f[x]]

\* heappop: the fringe holds <<distance, push count, node>>; the smallest
\* distance comes first, and among equal distances the earliest push.
HeapMin(fringe) ==
    CHOOSE t \in fringe :
        \A o \in fringe : t[1] < o[1] \/ (t[1] = o[1] /\ t[2] <= o[2])

\* The loop "for u, e in G_succ[v].items()" from the k-th successor of v on.
\* A finalised node that could still be improved makes networkx raise
\* ValueError("Contradictory paths found: negative weights?").
RECURSIVE Relax(_, _, _, _, _)
Relax(g, w, st, v, k) ==
    IF k > Len(g.succ[v]) \/ st.raised THEN st
    ELSE LET u == g.succ[v][k]
             vu_dist == st.dist[v] + weight_function(w, g.adj[<<v, u>>])
         IN  IF u \in DOMAIN st.dist
             THEN IF vu_dist < st.dist[u]
                  THEN [st EXCEPT !.raised = TRUE]
                  ELSE Relax(g, w, st, v, k + 1)
             ELSE IF u \notin DOMAIN st.seen \/ vu_dist < st.seen[u]
                  THEN Relax(g, w,
                             [st EXCEPT !.seen = MapPut(@, u, vu_dist),
                                        !.fringe = @ \cup {<<vu_dist, st.c, u>>},
                                        !.c = @ + 1,
                                        !.paths = MapPut(@, u, Append(st.paths[v], u))],
                             v, k + 1)
                  ELSE Relax(g, w, st, v, k + 1)

\* The loop "while fringe" of networkx's _dijkstra_multisource.
RECURSIVE DijkstraLoop(_, _, _, _)
DijkstraLoop(g, w, st, target) ==
    IF st.raised \/ st.fringe = {} THEN st
    ELSE LET t == HeapMin(st.fringe)
             v == t[3]
             rest == [st EXCEPT !.fringe = @ \ {t}]
         IN  IF v \in DOMAIN st.dist THEN DijkstraLoop(g, w, rest, target)
             ELSE LET fin == [rest EXCEPT !.dist = MapPut(@, v, t[1])]
                  IN  IF v = target THEN fin
                      ELSE DijkstraLoop(g, w, Relax(g, w, fin, v, 1), target)

\* nx.dijkstra_path(self.graph, source, target, weight=weight_function):
\* the path found, or the exception raised.  A source that is its own
\* target is answered with the one-node path before any edge is looked at.
dijkstra_path(g, w, source, target) ==
    IF source \notin DOMAIN g.node THEN [raised |-> "NodeNotFound", path |-> <<>>]
    ELSE IF source = target THEN [raised |-> "", path |-> <<source>>]
    ELSE LET st == DijkstraLoop(g, w,
                                [dist |-> [n \in {} |-> 0],
                                 seen |-> [n \in {source} |-> 0],
                                 paths |-> [n \in {source} |-> <<source>>],
                                 fringe |-> {<<0, 0, source>>},
                                 c |-> 1,
                                 raised |-> FALSE],
                                target)
         IN  IF st.raised THEN [raised |-> "ValueError", path |-> <<>>]
             ELSE IF target \in DOMAIN st.dist
                  THEN [raised |-> "", path |-> st.paths[target]]
                  ELSE [raised |-> "NetworkXNoPath", path |-> <<>>]

\* ------------------------------------------------------ find_shortest_path
RECURSIVE Sum(_)
Sum(s) == IF s = <<>> THEN 0 ELSE s[1] + Sum(Tail(s))

\* One entry of the route's 'edges' list.
RouteEdge(g, u, v) ==
    [source |-> u, destination |-> v,
     mode |-> g.adj[<<u, v>>].mode,
     duration |-> g.adj[<<u, v>>].duration,
     emissions |-> g.adj[<<u, v>>].emissions,
     cost |-> g.adj[<<u, v>>].cost]

\* The route dict whose loop stops one pair short of the path's end.
Route_short_loop(g, path) ==
    LET route_edges == [i \in 1 .. (Len(path) - 2) |-> RouteEdge(g, path[i], path[i + 1])]
    IN  [path |-> path,
         edges |-> route_edges,
         metrics |-> [duration |-> Sum([i \in DOMAIN route_edges |-> route_edges[i].duration]),
                      emissions |-> Sum([i \in DOMAIN route_edges |-> route_edges[i].emissions]),
                      cost |-> Sum([i \in DOMAIN route_edges |-> route_edges[i].cost]),
                      total_nodes |-> Len(path)]]

\* The route dict whose duration starts from the delay of the first node.
Route_from_source_delay(g, path) ==
    LET route_edges == [i \in 1 .. (Len(path) - 1) |-> RouteEdge(g, path[i], path[i + 1])]
    IN  [path |-> path,
         edges |-> route_edges,
         metrics |-> [duration |-> g.node[path[1]].delay
                                    + Sum([i \in DOMAIN route_edges |-> route_edges[i].duration]),
                      emissions |-> Sum([i \in DOMAIN route_edges |-> route_edges[i].emissions]),
                      cost |-> Sum([i \in DOMAIN route_edges |-> route_edges[i].cost]),
                      total_nodes |-> Len(path)]]

\* "Calculate route metrics": the loop over range(len(path) - 1) and the
\* route dict built from it.
Route(g, path) ==
    LET route_edges == [i \in 1 .. (Len(path) - 1) |-> RouteEdge(g, path[i], path[i + 1])]
    IN  [path |-> path,
         edges |-> route_edges,
         metrics |-> [duration |-> Sum([i \in DOMAIN route_edges |-> route_edges[i].duration]),
                      emissions |-> Sum([i \in DOMAIN route_edges |-> route_edges[i].emissions]),
                      cost |-> Sum([i \in DOMAIN route_edges |-> route_edges[i].cost]),
                      total_nodes |-> Len(path)]]

\* What dijkstra_path's outcome makes find_shortest_path return or raise:
\* NetworkXNoPath and NodeNotFound are caught and give None, any other
\* exception propagates.
Outcome(g, found) ==
    IF found.raised = "" THEN [ret |-> "route", route |-> Route(g, found.path)]
    ELSE IF found.raised \in {"NetworkXNoPath", "NodeNotFound"}
         THEN [ret |-> "None", route |-> None]
         ELSE [ret |-> found.raised, route |-> None]

\* find_shortest_path searching under the weights __init__ installed.
FindShortestPathResult_initial_weights(init, ns, g, w, source_id, target_id) ==
    IF ~init THEN [ret |-> "RuntimeError", route |-> None]
    ELSE IF source_id \notin DOMAIN ns \/ target_id \notin DOMAIN ns
         THEN [ret |-> "None", route |-> None]
         ELSE IF ns[source_id].blocked \/ ns[target_id].blocked
              THEN [ret |-> "None", route |-> None]
              ELSE Outcome(g, dijkstra_path(g, [duration |-> 4, emissions |-> 3,
                                                cost |-> 3, den |-> 10],
                                            source_id, target_id))

\* find_shortest_path without its test of the blocked flags.
FindShortestPathResult_no_blocked_check(init, ns, g, w, source_id, target_id) ==
    IF ~init THEN [ret |-> "RuntimeError", route |-> None]
    ELSE IF source_id \notin DOMAIN ns \/ target_id \notin DOMAIN ns
         THEN [ret |-> "None", route |-> None]
         ELSE Outcome(g, dijkstra_path(g, w, source_id, target_id))

\* What find_shortest_path returns (ret "route" with the route dict, or
\* ret "None") or raises (ret names the exception).
FindShortestPathResult(init, ns, g, w, source_id, target_id) ==
    IF ~init THEN [ret |-> "RuntimeError", route |-> None]
    ELSE IF source_id \notin DOMAIN ns \/ target_id \notin DOMAIN ns
         THEN [ret |-> "None", route |-> None]
         ELSE IF ns[source_id].blocked \/ ns[target_id].blocked
              THEN [ret |-> "None", route |-> None]
              ELSE Outcome(g, dijkstra_path(g, w, source_id, target_id))

\* find_shortest_path dropping the cached route when it has none to return.
find_shortest_path_clearing(source_id, target_id) ==
    LET result == FindShortestPathResult(initialized, nodes, Ordered(graph, edges),
                                         weights, source_id, target_id)
    IN  /\ last' = Call("find_shortest_path", source_id, result.ret)
        /\ current_route' = result.route
        /\ UNCHANGED <<nodes, edges, weather_grid, pain_points, weights, graph, initialized, handlers>>

\* FreightSimulation.find_shortest_path: a route that is returned is first
\* stored in current_route.  The call record names the source.
find_shortest_path(source_id, target_id) ==
    LET result == FindShortestPathResult(initialized, nodes, Ordered(graph, edges),
                                         weights, source_id, target_id)
    IN  /\ last' = Call("find_shortest_path", source_id, result.ret)
        /\ current_route' = IF result.ret = "route" THEN result.route ELSE current_route
        /\ UNCHANGED <<nodes, edges, weather_grid, pain_points, weights, graph, initialized, handlers>>

\* ---------------------------------------------------------- the snapshots
\* get_all_nodes (no type filter): Node.to_dict of every node; the
\* immutable fields other than the id are left out.
get_all_nodes(ns) ==
    { [id |-> n, delay |-> ns[n].delay, blocked |-> ns[n].blocked] : n \in DOMAIN ns }

\* get_all_edges: Edge.to_dict of every edge of the edge list.
get_all_edges(es) ==
    [i \in DOMAIN es |->
        [source |-> es[i].source, destination |-> es[i].destination,
         mode |-> es[i].mode,
         duration |-> es[i].current_duration,
         emissions |-> es[i].current_emissions,
         cost |-> es[i].current_cost,
         weather_impact |-> es[i].weather_impact]]

\* get_weather_grid: WeatherGrid.to_dict.
get_weather_grid(grid) == [grid_size |-> WEATHER_GRID_SIZE, grid |-> grid]

\* get_pain_points: PainPoint.to_dict of every entry, in list order.
get_pain_points(pps) == pps

\* ------------------------------------------------- the router under change
\* The calls of the specification that follows the router: the same
\* handlers on a smaller set of arguments.
RouteArgs == NodeIds \cup {UnknownId}
RouterPoints == { <<6, 0>> }
RouterSeverityArgs == {2}
RouterDelayHoursArgs == {0 - 5, 12}
RouterWeightArgs == { <<1, 0, 0>>, <<0, 0, 1>> }

FindRoute == \E s \in RouteArgs, t \in RouteArgs : find_shortest_path(s, t)
RouterUpdateWeather ==
    \E p \in RouterPoints, s \in RouterSeverityArgs : update_weather(p[1], p[2], s)
RouterUpdatePortDelay == \E h \in RouterDelayHoursArgs : update_port_delay("B", h)
RouterAddPainPoint ==
    \E a \in PainPointArgs : add_pain_point("B", "strike", "Dock strike", a[1], a[2])
RouterRemovePainPoint == \E i \in 0 .. (MaxPainPoints - 1) : remove_pain_point(i)
RouterUpdateWeights ==
    \E a \in RouterWeightArgs : update_weights(<<a[1]>>, <<a[2]>>, <<a[3]>>)

NextRouter ==
    \/ FindRoute
    \/ RouterUpdateWeather
    \/ RouterUpdatePortDelay
    \/ RouterAddPainPoint
    \/ RouterRemovePainPoint
    \/ RouterUpdateWeights

SpecRouter == Init /\ [][NextRouter]_vars

\* -------------------------------------------------- construction and reads
\* An nx.DiGraph() that nothing was added to.
EmptyGraph == [node |-> [n \in {} |-> 0], adj |-> [p \in {} |-> 0]]

\* What the two loaders append to self.edges.
FlightEdges == SelectSeq(InitialEdges, LAMBDA e : e.mode = "flight")
ShippingEdges == SelectSeq(InitialEdges, LAMBDA e : e.mode = "ship")

\* The state FreightSimulation.__init__ leaves.
Constructed ==
    /\ handlers = AllIdle
    /\ nodes = [n \in {} |-> 0]
    /\ edges = <<>>
    /\ weather_grid = [k \in {} |-> 0]
    /\ pain_points = <<>>
    /\ weights = [duration |-> 4, emissions |-> 3, cost |-> 3, den |-> 10]
    /\ graph = EmptyGraph
    /\ current_route = None
    /\ initialized = FALSE
    /\ last = Call("__init__", "", "None")

\* initialize_simulation raising the flag before the loaders have run.
initialize_simulation_flag_first(flight_ok, shipping_ok) ==
    /\ weather_grid' = [k \in {} |-> 0]
    /\ pain_points' = <<>>
    /\ weights' = [duration |-> 4, emissions |-> 3, cost |-> 3, den |-> 10]
    /\ current_route' = None
    /\ initialized' = TRUE
    /\ UNCHANGED handlers
    /\ IF ~flight_ok
       THEN /\ nodes' = [n \in {} |-> 0]
            /\ edges' = <<>>
            /\ graph' = EmptyGraph
            /\ last' = Call("initialize", "", "FileNotFoundError")
       ELSE IF ~shipping_ok
       THEN /\ nodes' = InitNodes
            /\ edges' = FlightEdges
            /\ graph' = EmptyGraph
            /\ last' = Call("initialize", "", "FileNotFoundError")
       ELSE /\ nodes' = InitNodes
            /\ edges' = BuiltEdges(InitNodes, [k \in {} |-> 0], FlightEdges \o ShippingEdges)
            /\ graph' = BuiltGraph(InitNodes, [k \in {} |-> 0], FlightEdges \o ShippingEdges)
            /\ last' = Call("initialize", "", "None")

\* initialize_simulation: a new FreightSimulation() replaces the engine and
\* initialize() runs on it.  _load_flight_data raises before it has written
\* anything when its file is missing; _load_shipping_data likewise, with
\* the flight data already loaded; only when both have returned does
\* _build_graph run and is initialized set.
initialize_simulation(flight_ok, shipping_ok) ==
    /\ weather_grid' = [k \in {} |-> 0]
    /\ pain_points' = <<>>
    /\ weights' = [duration |-> 4, emissions |-> 3, cost |-> 3, den |-> 10]
    /\ current_route' = None
    /\ UNCHANGED handlers
    /\ IF ~flight_ok
       THEN /\ nodes' = [n \in {} |-> 0]
            /\ edges' = <<>>
            /\ graph' = EmptyGraph
            /\ initialized' = FALSE
            /\ last' = Call("initialize", "", "FileNotFoundError")
       ELSE IF ~shipping_ok
       THEN /\ nodes' = InitNodes
            /\ edges' = FlightEdges
            /\ graph' = EmptyGraph
            /\ initialized' = FALSE
            /\ last' = Call("initialize", "", "FileNotFoundError")
       ELSE /\ nodes' = InitNodes
            /\ edges' = BuiltEdges(InitNodes, [k \in {} |-> 0], FlightEdges \o ShippingEdges)
            /\ graph' = BuiltGraph(InitNodes, [k \in {} |-> 0], FlightEdges \o ShippingEdges)
            /\ initialized' = TRUE
            /\ last' = Call("initialize", "", "None")

\* The status route: simulation_initialized.
status ==
    /\ last' = Call("status", "", IF initialized THEN "initialized" ELSE "not initialized")
    /\ UNCHANGED <<nodes, edges, weather_grid, pain_points, weights, graph,
                   current_route, initialized, handlers>>

\* A graph route that writes the refreshed values back into every edge.
get_graph_refreshing ==
    /\ last' = Call("get_graph", "", IF initialized THEN "200" ELSE "500")
    /\ edges' = [i \in DOMAIN edges |->
                    update_values(edges[i], MidpointSeverity(nodes, weather_grid, edges[i]))]
    /\ UNCHANGED <<nodes, weather_grid, pain_points, weights, graph,
                   current_route, initialized, handlers>>

\* The graph route: get_all_nodes and get_all_edges, answered with status
\* 500 while the engine is not initialized.
get_graph ==
    /\ last' = Call("get_graph", "", IF initialized THEN "200" ELSE "500")
    /\ UNCHANGED <<nodes, edges, weather_grid, pain_points, weights, graph,
                   current_route, initialized, handlers>>

\* The weather route: get_weather_grid.
get_weather ==
    /\ last' = Call("get_weather", "", IF initialized THEN "200" ELSE "500")
    /\ UNCHANGED <<nodes, edges, weather_grid, pain_points, weights, graph,
                   current_route, initialized, handlers>>

\* The pain-point listing route: get_pain_points.
list_pain_points ==
    /\ last' = Call("get_pain_points", "", IF initialized THEN "200" ELSE "500")
    /\ UNCHANGED <<nodes, edges, weather_grid, pain_points, weights, graph,
                   current_route, initialized, handlers>>

InitializeSimulation == \E f \in BOOLEAN, sh \in BOOLEAN : initialize_simulation(f, sh)

\* Every mutation route answers 500 while the engine is not initialized.
NextService ==
    \/ InitializeSimulation
    \/ status
    \/ get_graph
    \/ get_weather
    \/ list_pain_points
    \/ FindRoute
    \/ initialized /\ RouterUpdateWeather
    \/ initialized /\ RouterUpdatePortDelay
    \/ initialized /\ RouterAddPainPoint
    \/ initialized /\ RouterRemovePainPoint
    \/ initialized /\ RouterUpdateWeights

SpecService == Constructed /\ [][NextService]_vars

\* ------------------------------------------------ concurrent request handlers
\* app.run serves each request on its own thread and neither app.py nor
\* simulation.py takes a lock, so the statements of two handlers interleave.
\* A handler is followed through add_pain_point / remove_pain_point and the
\* _build_graph they call, one step per read or write of shared state:
\*   load_delay, store_delay   the two halves of "delay += / -= ..."
\*   clear, add_nodes          graph.clear() and the add_node loop
\*   edge, add_edge            one iteration of the edge loop: the test and
\*                             update_values with edge_duration computed,
\*                             then the graph.add_edge call
\* A query is one step (find_shortest_path as a whole); the order of the
\* successors it sees is that of the edge list.
ThreadNodeArgs == {"A"}
ThreadRouteArgs == {<<"A", "C">>, <<"C", "A">>}

\* add_pain_point(node_id, ..., delay_increase, blocked=False) up to and
\* including self.pain_points.append(pain_point).
add_pain_point_append(h, node_id, delay_increase) ==
    /\ handlers[h].pc = "idle"
    /\ handlers[h].served < MaxRequests
    /\ node_id \in DOMAIN nodes
    /\ Len(pain_points) < MaxPainPoints
    /\ pain_points' = Append(pain_points,
                             PainPoint(node_id, "strike", "Dock strike", delay_increase, FALSE))
    /\ handlers' = [handlers EXCEPT ![h] =
                       [pc |-> "load_delay", op |-> "add_pain_point", node |-> node_id,
                        inc |-> Q(delay_increase), tmp |-> 0, k |-> 0,
                        served |-> handlers[h].served + 1]]
    /\ UNCHANGED <<nodes, edges, weather_grid, weights, graph, current_route, initialized, last>>

\* remove_pain_point(index) up to and including self.pain_points.pop(index);
\* out of range it returns False at once.
remove_pain_point_pop(h, index) ==
    /\ handlers[h].pc = "idle"
    /\ handlers[h].served < MaxRequests
    /\ IF 0 <= index /\ index < Len(pain_points)
       THEN LET pain_point == pain_points[index + 1]
            IN  /\ pain_points' = Pop(pain_points, index)
                /\ handlers' = [handlers EXCEPT ![h] =
                                   [pc |-> "load_delay", op |-> "remove_pain_point",
                                    node |-> pain_point.node_id,
                                    inc |-> 0 - pain_point.delay_increase,
                                    tmp |-> 0, k |-> 0,
                                    served |-> handlers[h].served + 1]]
                /\ UNCHANGED <<nodes, edges, weather_grid, weights, graph, current_route,
                               initialized, last>>
       ELSE remove_pain_point(index)

\* self.nodes[node_id].delay += / -= ...: the attribute is read ...
load_delay(h) ==
    /\ handlers[h].pc = "load_delay"
    /\ handlers' = [handlers EXCEPT ![h].pc = "store_delay",
                                    ![h].tmp = nodes[handlers[h].node].delay]
    /\ UNCHANGED <<nodes, edges, weather_grid, pain_points, weights, graph, current_route,
                   initialized, last>>

\* ... and the sum is written back; then blocked is assigned (add: the
\* blocked argument; remove: False and the scan of the remaining list).
store_delay(h) ==
    /\ handlers[h].pc = "store_delay"
    /\ nodes' = [nodes EXCEPT
                    ![handlers[h].node].delay = handlers[h].tmp + handlers[h].inc,
                    ![handlers[h].node].blocked =
                        IF handlers[h].op = "remove_pain_point"
                        THEN StillBlocked(pain_points, handlers[h].node)
                        ELSE FALSE]
    /\ handlers' = [handlers EXCEPT ![h].pc = "clear"]
    /\ UNCHANGED <<edges, weather_grid, pain_points, weights, graph, current_route,
                   initialized, last>>

\* _build_graph: self.graph.clear()
clear(h) ==
    /\ handlers[h].pc = "clear"
    /\ graph' = EmptyGraph
    /\ handlers' = [handlers EXCEPT ![h].pc = "add_nodes"]
    /\ UNCHANGED <<nodes, edges, weather_grid, pain_points, weights, current_route,
                   initialized, last>>

\* _build_graph: the add_node loop.
add_nodes(h) ==
    /\ handlers[h].pc = "add_nodes"
    /\ graph' = [graph EXCEPT !.node =
                    [n \in DOMAIN nodes |->
                        [delay |-> nodes[n].delay, blocked |-> nodes[n].blocked]]]
    /\ handlers' = [handlers EXCEPT ![h].pc = "edge", ![h].k = 1]
    /\ UNCHANGED <<nodes, edges, weather_grid, pain_points, weights, current_route,
                   initialized, last>>

\* _build_graph: one iteration of the edge loop up to the add_edge call
\* (the skip test, update_values, src_delay and edge_duration); with the
\* loop exhausted the mutation returns True.
edge(h) ==
    LET k == handlers[h].k
    IN  /\ handlers[h].pc = "edge"
        /\ IF k > Len(edges)
           THEN /\ last' = Call(handlers[h].op, handlers[h].node, "True")
                /\ handlers' = [handlers EXCEPT ![h] =
                                   [IdleHandler EXCEPT !.served = handlers[h].served]]
                /\ UNCHANGED edges
           ELSE IF SkipEdge(nodes, edges[k])
           THEN /\ handlers' = [handlers EXCEPT ![h].k = k + 1]
                /\ UNCHANGED <<edges, last>>
           ELSE LET e == update_values(edges[k], MidpointSeverity(nodes, weather_grid, edges[k]))
                IN  /\ edges' = [edges EXCEPT ![k] = e]
                    /\ handlers' = [handlers EXCEPT
                                       ![h].pc = "add_edge",
                                       ![h].tmp = e.current_duration + nodes[e.source].delay]
                    /\ UNCHANGED last
        /\ UNCHANGED <<nodes, weather_grid, pain_points, weights, graph, current_route,
                       initialized>>

\* A node that add_edge had to create: it has no attributes.
NoAttributes == [a \in {} |-> 0]

\* _build_graph: self.graph.add_edge(source, destination, mode=...,
\* duration=edge_duration, ...).  add_edge creates an endpoint the graph
\* does not have.
add_edge(h) ==
    LET e == edges[handlers[h].k]
        uv == <<e.source, e.destination>>
    IN  /\ handlers[h].pc = "add_edge"
        /\ graph' =
              [node |-> [n \in DOMAIN graph.node \cup {e.source, e.destination} |->
                            IF n \in DOMAIN graph.node THEN graph.node[n] ELSE NoAttributes],
               adj |-> [p \in DOMAIN graph.adj \cup {uv} |->
                           IF p = uv
                           THEN [mode |-> e.mode,
                                 duration |-> handlers[h].tmp,
                                 emissions |-> e.current_emissions,
                                 cost |-> e.current_cost,
                                 weather_impact |-> e.weather_impact]
                           ELSE graph.adj[p]]]
        /\ handlers' = [handlers EXCEPT ![h].pc = "edge", ![h].k = @ + 1]
        /\ UNCHANGED <<nodes, edges, weather_grid, pain_points, weights, current_route,
                       initialized, last>>

ThreadAddPainPoint ==
    \E h \in Handlers, n \in ThreadNodeArgs : add_pain_point_append(h, n, 12)
ThreadRemovePainPoint ==
    \E h \in Handlers : remove_pain_point_pop(h, 0)
ThreadLoadDelay == \E h \in Handlers : load_delay(h)
ThreadStoreDelay == \E h \in Handlers : store_delay(h)
ThreadClear == \E h \in Handlers : clear(h)
ThreadAddNodes == \E h \in Handlers : add_nodes(h)
ThreadEdge == \E h \in Handlers : edge(h)
ThreadAddEdge == \E h \in Handlers : add_edge(h)
ThreadFindRoute ==
    \E a \in ThreadRouteArgs : find_shortest_path(a[1], a[2])

NextThreads ==
    \/ ThreadAddPainPoint
    \/ ThreadRemovePainPoint
    \/ ThreadLoadDelay
    \/ ThreadStoreDelay
    \/ ThreadClear
    \/ ThreadAddNodes
    \/ ThreadEdge
    \/ ThreadAddEdge
    \/ ThreadFindRoute

SpecThreads == Init /\ [][NextThreads]_vars

\* ------------------------------------------------------------------ claims
MutatingOps == {"update_weather", "update_port_delay", "add_pain_point", "remove_pain_point"}

OverlayState == <<weather_grid, pain_points, nodes, weights, graph>>

\* Some pain point of the list references node n with blocked = true.
BlockedByPainPoint(pps, n) ==
    \E i \in 1 .. Len(pps) : pps[i].node_id = n /\ pps[i].blocked

\* floor(x / WEATHER_GRID_SIZE) of both coordinates (whole degrees) agree.
FloorBlock(p) == << p[1] \div WEATHER_GRID_SIZE, p[2] \div WEATHER_GRID_SIZE >>

\* The severity get_severity returns at point p (whole degrees) on grid.
SeverityAt(grid, p) == get_severity(grid, HalfDeg(p[1]), HalfDeg(p[2]))

BlockOf(p) == get_block_key(HalfDeg(p[1]), HalfDeg(p[2]))

\* C1: in every reachable state the effective graph holds no edge whose
\* source or destination node is currently blocked.
C1_NoEdgeAtBlockedNode ==
    \A uv \in DOMAIN graph.adj : ~nodes[uv[1]].blocked /\ ~nodes[uv[2]].blocked

\* A pain point has blocked B: every edge at B is gone, A -> C remains.
C1_Witness ==
    /\ last.op = "add_pain_point"
    /\ nodes["B"].blocked
    /\ DOMAIN graph.adj = { <<"A", "C">> }

\* C2: when update_weather, update_port_delay, add_pain_point or
\* remove_pain_point has returned, the effective graph equals the graph a
\* fresh full rebuild from the current nodes, edges and weather grid gives.
C2_GraphIsFreshRebuild ==
    last.op \in MutatingOps => graph = BuiltGraph(nodes, weather_grid, edges)

\* A delay was just set on B while weather and a pain point are in force.
C2_Witness ==
    /\ last.op = "update_port_delay"
    /\ last.node = "B"
    /\ nodes["B"].delay = Q(12)
    /\ ~nodes["B"].blocked
    /\ DOMAIN weather_grid # {}
    /\ pain_points # <<>>
    /\ graph.adj[<<"B", "C">>].duration >= Q(12)

\* C3: every node's delay lies in [0, MAX_DELAY] after any sequence of
\* update_port_delay, add_pain_point and remove_pain_point calls.
C3_DelayWithinBounds ==
    \A n \in DOMAIN nodes : 0 <= nodes[n].delay /\ nodes[n].delay <= Q(MAX_DELAY)

\* C4: in every reachable state a node is blocked if and only if some pain
\* point currently in the list references it with blocked = true.
C4_BlockedIffSomePainPointBlocks ==
    \A n \in DOMAIN nodes : nodes[n].blocked <=> BlockedByPainPoint(pain_points, n)

\* C5: after a successful remove_pain_point the node of the removed entry
\* is blocked exactly when a remaining pain point references it with
\* blocked = true.
C5_RemoveRecomputesBlocked ==
    (last.op = "remove_pain_point" /\ last.ret = "True")
        => (nodes[last.node].blocked <=> BlockedByPainPoint(pain_points, last.node))

\* One of two blocking pain points on a node was removed: it stays blocked.
C5_Witness ==
    /\ last.op = "remove_pain_point"
    /\ last.ret = "True"
    /\ Len(pain_points) = 1
    /\ pain_points[1].node_id = last.node
    /\ pain_points[1].blocked
    /\ nodes[last.node].blocked

\* C6: after any update_weights call the three objective weights are
\* non-negative and sum to 1.
C6_WeightsSumToOne ==
    last.op = "update_weights"
        => /\ weights.duration >= 0 /\ weights.emissions >= 0 /\ weights.cost >= 0
           /\ weights.duration + weights.emissions + weights.cost = weights.den

\* C7: in every reachable state the scalar weight the router computes for
\* every effective-graph edge is non-negative.
C7_EdgeWeightsNonNegative ==
    \A uv \in DOMAIN graph.adj :
        /\ graph.adj[uv].duration >= 0
        /\ weight_function(weights, graph.adj[uv]) >= 0

\* C8: a successful update_weather(p, s) makes get_severity return s at
\* every point of p's block, and get_severity returns 0 at every point
\* whose block has never been set.
C8_SetThenGet ==
    [][last'.op = "update_weather" =>
          \A p \in Points, s \in SeverityArgs :
              (SeverityValid(s) /\ update_weather(p[1], p[2], s))
                  => /\ \A q \in Points :
                          BlockOf(q) = BlockOf(p) => SeverityAt(weather_grid', q) = s
                     /\ \A q \in Points :
                          BlockOf(q) \notin DOMAIN weather_grid'
                              => SeverityAt(weather_grid', q) = 0
      ]_vars

\* Block (0, 0) was set to one half; block (5, 0) has never been set.
C8_Witness ==
    /\ last.op = "update_weather"
    /\ last.ret = "None"
    /\ DOMAIN weather_grid = { <<0, 0>> }
    /\ SeverityAt(weather_grid, <<0 - 1, 0>>) = 2
    /\ SeverityAt(weather_grid, <<1, 0 - 1>>) = 2
    /\ SeverityAt(weather_grid, <<6, 0>>) = 0

\* A call that fails validation: a severity outside [0, 1], an unknown node
\* id, an index outside 0 .. len-1.
RejectedCall ==
    \/ \E p \in Points, s \in SeverityArgs :
          ~(0 <= s /\ s <= Q(1)) /\ update_weather(p[1], p[2], s)
    \/ \E n \in NodeArgs \ NodeIds, h \in DelayHoursArgs : update_port_delay(n, h)
    \/ \E n \in NodeArgs \ NodeIds, a \in PainPointArgs :
          add_pain_point(n, "strike", "Dock strike", a[1], a[2])
    \/ \E i \in IndexArgs :
          ~(0 <= i /\ i <= Len(pain_points) - 1) /\ remove_pain_point(i)

\* C9: a mutating call that fails validation leaves the weather grid, the
\* pain-point list, every node's delay and blocked flag, the objective
\* weights and the effective graph as they were.
C9_RejectedCallChangesNothing ==
    [][RejectedCall => UNCHANGED OverlayState]_vars

\* An out-of-range severity was rejected in a state with weather, a pain
\* point and a delay in force.
C9_Witness ==
    /\ last.op = "update_weather"
    /\ last.ret = "ValueError"
    /\ DOMAIN weather_grid # {}
    /\ pain_points # <<>>
    /\ nodes["B"].delay # 0

\* C10: set_severity at p changes get_severity at q if and only if
\* floor(lat / size) and floor(lon / size) of p and q agree.
C10_BlocksAreFloorBlocks ==
    [][\A p \in Points, q \in Points, s \in SeverityArgs :
          (/\ SeverityValid(s)
           /\ update_weather(p[1], p[2], s)
           /\ SeverityAt(weather_grid, q) # s)
              => ((SeverityAt(weather_grid', q) = s) <=> (FloorBlock(q) = FloorBlock(p)))
      ]_vars

\* ------------------------------------------------------- claims: the router
\* The attributes a rebuild in the current state gives edge i of the edge
\* list: weather-adjusted, plus the delay of its source node.
EffectiveData(i) ==
    EdgeData(nodes, update_values(edges[i], MidpointSeverity(nodes, weather_grid, edges[i])))

\* Both endpoints of edge i are unblocked.
Usable(i) == ~nodes[edges[i].source].blocked /\ ~nodes[edges[i].destination].blocked

\* The nodes a sequence of edge indices visits when it starts at s.
Visited(s, p) == <<s>> \o [k \in DOMAIN p |-> edges[p[k]].destination]

\* The paths from s to t over the usable edges of the edge list, as
\* sequences of edge indices: consecutive edges meet and no node repeats.
EdgePaths(s, t) ==
    { p \in UNION { [1 .. n -> DOMAIN edges] : n \in 0 .. (Cardinality(NodeIds) - 1) } :
        /\ \A k \in DOMAIN p : Usable(p[k])
        /\ \A k \in DOMAIN p :
              edges[p[k]].source = (IF k = 1 THEN s ELSE edges[p[k - 1]].destination)
        /\ Visited(s, p)[Len(p) + 1] = t
        /\ \A j, k \in DOMAIN Visited(s, p) : j # k => Visited(s, p)[j] # Visited(s, p)[k] }

PathWeight(p) == Sum([k \in DOMAIN p |-> weight_function(weights, EffectiveData(p[k]))])

RouteWeight(route) ==
    Sum([k \in DOMAIN route.edges |-> weight_function(weights, route.edges[k])])

\* C11: when find_shortest_path has returned a route, no path from its
\* source to its target over the edges with both endpoints unblocked has a
\* smaller total scalar weight under the current weights and the edges'
\* weather- and delay-adjusted attributes.
C11_ReturnedRouteIsOptimal ==
    (last.op = "find_shortest_path" /\ last.ret = "route")
        => \A p \in EdgePaths(current_route.path[1],
                              current_route.path[Len(current_route.path)]) :
               RouteWeight(current_route) <= PathWeight(p)

\* The route r answers the query (s, t) on graph g: its node sequence goes
\* from s to t along edges of g, its edge list has one entry per consecutive
\* pair with that edge's attributes, its totals are the sums over the edge
\* list, and total_nodes is the path length.
WellFormedRoute(r, g, s, t) ==
    /\ Len(r.path) >= 1
    /\ r.path[1] = s
    /\ r.path[Len(r.path)] = t
    /\ Len(r.edges) = Len(r.path) - 1
    /\ \A i \in 1 .. (Len(r.path) - 1) :
          /\ <<r.path[i], r.path[i + 1]>> \in DOMAIN g.adj
          /\ r.edges[i].source = r.path[i]
          /\ r.edges[i].destination = r.path[i + 1]
          /\ r.edges[i].mode = g.adj[<<r.path[i], r.path[i + 1]>>].mode
          /\ r.edges[i].duration = g.adj[<<r.path[i], r.path[i + 1]>>].duration
          /\ r.edges[i].emissions = g.adj[<<r.path[i], r.path[i + 1]>>].emissions
          /\ r.edges[i].cost = g.adj[<<r.path[i], r.path[i + 1]>>].cost
    /\ r.metrics.duration = Sum([i \in DOMAIN r.edges |-> r.edges[i].duration])
    /\ r.metrics.emissions = Sum([i \in DOMAIN r.edges |-> r.edges[i].emissions])
    /\ r.metrics.cost = Sum([i \in DOMAIN r.edges |-> r.edges[i].cost])
    /\ r.metrics.total_nodes = Len(r.edges) + 1

\* C12: every route find_shortest_path(source, target) returns starts at
\* source, ends at target, follows edges of the effective graph, lists one
\* entry per consecutive pair with that edge's mode, duration, emissions and
\* cost, totals the sums over those entries, and counts the path's nodes.
C12_RouteIsWellFormed ==
    [][(last'.op = "find_shortest_path" /\ last'.ret = "route") =>
          \A s \in RouteArgs, t \in RouteArgs :
              (s = last'.node /\ find_shortest_path(s, t))
                  => WellFormedRoute(current_route', graph, s, t)
      ]_vars

\* A two-edge route through B was returned with a delay on B in force.
C12_Witness ==
    /\ last.op = "find_shortest_path"
    /\ last.ret = "route"
    /\ current_route.path = <<"A", "B", "C">>
    /\ nodes["B"].delay = Q(12)
    /\ current_route.metrics.duration >= Q(16)

\* The nodes g reaches from the set S in at most k steps.
RECURSIVE Reach(_, _, _)
Reach(g, S, k) ==
    IF k = 0 THEN S
    ELSE Reach(g, S \cup {uv[2] : uv \in {e \in DOMAIN g.adj : e[1] \in S}}, k - 1)

HasPath(g, s, t) == t \in Reach(g, {s}, Cardinality(NodeIds))

\* C13: for known node ids find_shortest_path returns None exactly when the
\* source is blocked, the target is blocked, or the effective graph has no
\* directed path from source to target; in every other case it returns a
\* route.
C13_NoRouteIffBlockedOrUnreachable ==
    [][last'.op = "find_shortest_path" =>
          \A s \in NodeIds, t \in NodeIds :
              (s = last'.node /\ find_shortest_path(s, t))
                  => IF nodes[s].blocked \/ nodes[t].blocked \/ ~HasPath(graph, s, t)
                     THEN last'.ret = "None"
                     ELSE last'.ret = "route"
      ]_vars

\* The route from a node to itself: no edge, every total zero.
TrivialRoute(a) ==
    [path |-> <<a>>, edges |-> <<>>,
     metrics |-> [duration |-> 0, emissions |-> 0, cost |-> 0, total_nodes |-> 1]]

\* C14 as stated: find_shortest_path(a, a) for a known node a returns the
\* route with path [a], an empty edge list and totals 0.
C14_SelfRouteForKnownNode ==
    [][last'.op = "find_shortest_path" =>
          \A a \in NodeIds :
              (a = last'.node /\ find_shortest_path(a, a))
                  => (last'.ret = "route" /\ current_route' = TrivialRoute(a))
      ]_vars

\* C14, amended: find_shortest_path(a, a) for a known node a that is not
\* blocked returns the route with path [a], an empty edge list and totals
\* 0, whatever a's delay and the weather are.
C14_SelfRouteForUnblockedNode ==
    [][last'.op = "find_shortest_path" =>
          \A a \in NodeIds :
              (a = last'.node /\ ~nodes[a].blocked /\ find_shortest_path(a, a))
                  => (last'.ret = "route" /\ current_route' = TrivialRoute(a))
      ]_vars

\* B was routed to itself while it carries a delay and weather is set.
C14_Witness ==
    /\ last.op = "find_shortest_path"
    /\ last.node = "B"
    /\ last.ret = "route"
    /\ current_route = TrivialRoute("B")
    /\ nodes["B"].delay = Q(12)
    /\ DOMAIN weather_grid # {}

\* Node s has outgoing edges and every one of them leads to a blocked node.
AllOutgoingBlocked(s) ==
    /\ \E i \in DOMAIN edges : edges[i].source = s
    /\ \A i \in DOMAIN edges : edges[i].source = s => nodes[edges[i].destination].blocked

\* C15 as stated: if the source is blocked, or every outgoing edge of the
\* source leads to a blocked node, find_shortest_path(source, t) returns
\* None for every target t.
C15_NoRouteFromCutOffSource ==
    [][last'.op = "find_shortest_path" =>
          \A s \in NodeIds, t \in RouteArgs :
              (/\ s = last'.node
               /\ nodes[s].blocked \/ AllOutgoingBlocked(s)
               /\ find_shortest_path(s, t))
                  => last'.ret = "None"
      ]_vars

\* C15, amended: if the source is blocked, find_shortest_path(source, t)
\* returns None for every target t; if every outgoing edge of the source
\* leads to a blocked node, it returns None for every target t other than
\* the source itself.
C15_NoRouteFromCutOffSourceToOthers ==
    [][last'.op = "find_shortest_path" =>
          \A s \in NodeIds, t \in RouteArgs :
              (/\ s = last'.node
               /\ nodes[s].blocked \/ (AllOutgoingBlocked(s) /\ t # s)
               /\ find_shortest_path(s, t))
                  => last'.ret = "None"
      ]_vars

\* C, whose only edge leads to the blocked B, was the source of a query
\* that returned None.
C15_Witness ==
    /\ last.op = "find_shortest_path"
    /\ last.node = "C"
    /\ last.ret = "None"
    /\ ~nodes["C"].blocked
    /\ nodes["B"].blocked
    /\ AllOutgoingBlocked("C")

\* C16: find_shortest_path with a source or target id absent from the
\* registry ends in an error outcome, which is neither a route nor the
\* None that stands for 'no route'.
C16_UnknownNodeIsAnError ==
    [][last'.op = "find_shortest_path" =>
          \A s \in RouteArgs, t \in RouteArgs :
              (/\ s = last'.node
               /\ s \notin DOMAIN nodes \/ t \notin DOMAIN nodes
               /\ find_shortest_path(s, t))
                  => (last'.ret # "None" /\ last'.ret # "route")
      ]_vars

\* ------------------------------------------- claims: mutations and the graph
\* What each mutation returns when it has done its work.
SuccessReturn ==
    [update_port_delay |-> "None", add_pain_point |-> "True", remove_pain_point |-> "True"]

\* A mutation given a reference that does not exist: an unknown node id,
\* an index outside 0 .. len-1.
InvalidReferenceCall ==
    \/ \E n \in NodeArgs \ NodeIds, h \in DelayHoursArgs : update_port_delay(n, h)
    \/ \E n \in NodeArgs \ NodeIds, a \in PainPointArgs :
          add_pain_point(n, "strike", "Dock strike", a[1], a[2])
    \/ \E i \in IndexArgs :
          ~(0 <= i /\ i <= Len(pain_points) - 1) /\ remove_pain_point(i)

\* C17: update_port_delay and add_pain_point with an unknown node id, and
\* remove_pain_point with an index outside 0 .. len-1, report a failure to
\* the caller: what they return differs from what a successful call returns.
C17_InvalidReferenceIsReported ==
    [][InvalidReferenceCall => last'.ret # SuccessReturn[last'.op]]_vars

\* Edge i of the edge list joins the pair uv with the attributes the graph
\* holds for uv: emissions = base_emissions * (1 + 2*impact), cost =
\* base_cost * (1 + 1.5*impact), duration = base_duration * (1 + 2*impact)
\* + the delay of the source node, where impact is the severity of the
\* block that contains the midpoint of the endpoints.
EffectiveFormula(i, uv) ==
    LET impact == get_severity(weather_grid,
                               HalfDeg(NodeLat[uv[1]] + NodeLat[uv[2]]) \div 2,
                               HalfDeg(NodeLon[uv[1]] + NodeLon[uv[2]]) \div 2)
        data == graph.adj[uv]
    IN  /\ edges[i].source = uv[1]
        /\ edges[i].destination = uv[2]
        /\ edges[i].mode = data.mode
        /\ data.emissions * Q(1) = edges[i].base_emissions * (Q(1) + 2 * impact)
        /\ data.cost * Q(2) = edges[i].base_cost * (Q(2) + 3 * impact)
        /\ (data.duration - nodes[uv[1]].delay) * Q(1)
               = edges[i].base_duration * (Q(1) + 2 * impact)

\* C18: every edge of the effective graph carries the weather-adjusted
\* emissions and cost of an edge of the edge list, and its weather-adjusted
\* duration plus the current delay of its source node.
C18_EffectiveAttributes ==
    \A uv \in DOMAIN graph.adj : \E i \in DOMAIN edges : EffectiveFormula(i, uv)

\* Severity one half lies on the block of the B - C midpoint and B carries
\* a delay of 12 hours: B -> C takes 1 * 2 + 12 hours and costs 1.75.
C18_Witness ==
    /\ <<5, 0>> \in DOMAIN weather_grid
    /\ weather_grid[<<5, 0>>] = 2
    /\ nodes["B"].delay = Q(12)
    /\ <<"B", "C">> \in DOMAIN graph.adj
    /\ graph.adj[<<"B", "C">>].duration = Q(14)
    /\ graph.adj[<<"B", "C">>].cost = 7

\* The node sequences of two or more distinct nodes that follow edges of g.
NodePaths(g) ==
    { p \in UNION { [1 .. n -> NodeIds] : n \in 2 .. Cardinality(NodeIds) } :
        /\ \A k \in 1 .. (Len(p) - 1) : <<p[k], p[k + 1]>> \in DOMAIN g.adj
        /\ \A j, k \in DOMAIN p : j # k => p[j] # p[k] }

PathDuration(g, p) == Sum([k \in 1 .. (Len(p) - 1) |-> g.adj[<<p[k], p[k + 1]>>].duration])
PathEmissions(g, p) == Sum([k \in 1 .. (Len(p) - 1) |-> g.adj[<<p[k], p[k + 1]>>].emissions])
PathCost(g, p) == Sum([k \in 1 .. (Len(p) - 1) |-> g.adj[<<p[k], p[k + 1]>>].cost])

\* What a change of node n's delay by `change` does to the graph: the edges
\* departing from n take `change` longer and nothing else moves, so a path
\* that departs from n somewhere takes `change` longer and a path that only
\* ends at n is as long as before.
DelayMovesOnlyDepartures(n, change) ==
    /\ DOMAIN graph'.adj = DOMAIN graph.adj
    /\ \A uv \in DOMAIN graph.adj :
          /\ graph'.adj[uv].emissions = graph.adj[uv].emissions
          /\ graph'.adj[uv].cost = graph.adj[uv].cost
          /\ graph'.adj[uv].duration
                 = graph.adj[uv].duration + (IF uv[1] = n THEN change ELSE 0)
    /\ \A p \in NodePaths(graph) :
          /\ PathEmissions(graph', p) = PathEmissions(graph, p)
          /\ PathCost(graph', p) = PathCost(graph, p)
          /\ PathDuration(graph', p)
                 = PathDuration(graph, p)
                   + (IF \E k \in 1 .. (Len(p) - 1) : p[k] = n THEN change ELSE 0)

\* C19: update_port_delay on node n changes the duration of the edges that
\* depart from n by exactly the change of n's delay and changes no other
\* duration and no emissions or cost; a route through n gets longer by that
\* change and a route that ends at n does not.
C19_DelayMovesOnlyDepartures ==
    [][last'.op = "update_port_delay" =>
          \A n \in NodeIds, h \in DelayHoursArgs :
              (n = last'.node /\ update_port_delay(n, h))
                  => DelayMovesOnlyDepartures(n, nodes'[n].delay - nodes[n].delay)
      ]_vars

\* B's delay was just set to 12 hours on the undisturbed network: B -> C
\* takes 13 hours, the edges into B take what they took.
C19_Witness ==
    /\ last.op = "update_port_delay"
    /\ last.node = "B"
    /\ nodes["B"].delay = Q(12)
    /\ pain_points = <<>>
    /\ DOMAIN weather_grid = {}
    /\ graph.adj[<<"B", "C">>].duration = Q(13)
    /\ graph.adj[<<"A", "B">>].duration = Q(3)
    /\ graph.adj[<<"C", "B">>].duration = Q(2)

\* The delay the pain points of the list contribute to node n.
PainDelay(pps, n) ==
    Sum([i \in DOMAIN pps |-> IF pps[i].node_id = n THEN pps[i].delay_increase ELSE 0])

\* C20: after update_port_delay(n, h) the delay of n is clamp(h, 0,
\* MAX_DELAY) plus the delay increases of the pain points active on n, and
\* a later remove_pain_point subtracts from it only the increase of the
\* pain point it removes.
C20_BaseDelayKeepsPainPointDelay ==
    [][/\ last'.op = "update_port_delay" =>
              \A n \in NodeIds, h \in DelayHoursArgs :
                  (n = last'.node /\ update_port_delay(n, h))
                      => nodes'[n].delay
                             = Max(0, Min(Q(MAX_DELAY), Q(h))) + PainDelay(pain_points', n)
       /\ (last'.op = "remove_pain_point" /\ last'.ret = "True") =>
              \A i \in IndexArgs :
                  (0 <= i /\ i < Len(pain_points) /\ remove_pain_point(i))
                      => nodes'[last'.node].delay
                             = nodes[last'.node].delay - pain_points[i + 1].delay_increase
      ]_vars

\* --------------------------------------------------- claims: C21, C22, C25
\* The state add_pain_point(n, ..., a) followed by remove_pain_point of the
\* entry it appended leaves, computed from the current state.
AddThenRemove(n, a) ==
    LET pp == PainPoint(n, "strike", "Dock strike", a[1], a[2])
        added_list == Append(pain_points, pp)
        added_nodes == ApplyPainPoint(nodes, pp)
        added_edges == BuiltEdges(added_nodes, weather_grid, edges)
        remaining == Pop(added_list, Len(added_list) - 1)
        removed_nodes == ReversePainPoint(added_nodes, pp, remaining)
    IN  [nodes |-> removed_nodes,
         pain_points |-> remaining,
         graph |-> BuiltGraph(removed_nodes, weather_grid, added_edges)]

\* C21: add_pain_point on a node followed at once by remove_pain_point of
\* that entry restores the node's delay and blocked flag, the pain-point
\* list and the effective graph.
C21_AddThenRemoveRestores ==
    \A n \in NodeIds, a \in PainPointArgs :
        /\ AddThenRemove(n, a).nodes = nodes
        /\ AddThenRemove(n, a).pain_points = pain_points
        /\ AddThenRemove(n, a).graph = graph

\* C22: a route that is returned uses, for each of its steps, an edge that
\* weighs no more than any edge of the edge list that joins the same
\* ordered pair and has both endpoints unblocked.
C22_LightestParallelEdgeIsUsed ==
    (last.op = "find_shortest_path" /\ last.ret = "route")
        => \A k \in DOMAIN current_route.edges, i \in DOMAIN edges :
               (/\ Usable(i)
                /\ edges[i].source = current_route.edges[k].source
                /\ edges[i].destination = current_route.edges[k].destination)
                   => weight_function(weights, current_route.edges[k])
                          <= weight_function(weights, EffectiveData(i))

\* The scalar weight of a node sequence in the effective graph.
GraphPathWeight(p) ==
    Sum([k \in 1 .. (Len(p) - 1) |-> weight_function(weights, graph.adj[<<p[k], p[k + 1]>>])])

C29_SnapshotEdgesAreCurrent ==
    last.op \in MutatingOps
        => \A i \in DOMAIN edges :
               LET impact == MidpointSeverity(nodes, weather_grid, edges[i])
                   entry == get_all_edges(edges)[i]
               IN  /\ entry.weather_impact = impact
                   /\ entry.duration * Q(1) = edges[i].base_duration * (Q(1) + 2 * impact)
                   /\ entry.emissions * Q(1) = edges[i].base_emissions * (Q(1) + 2 * impact)
                   /\ entry.cost * Q(2) = edges[i].base_cost * (Q(2) + 3 * impact)

\* C30: add_pain_point appends its entry at the end of the list; a
\* successful remove_pain_point(i) removes the entry at index i and keeps
\* the others in their order; every other step leaves the list as it was.
C30_PainPointListIsOrdered ==
    [][/\ (last'.op = "add_pain_point" /\ last'.ret = "True") =>
              /\ Len(pain_points') = Len(pain_points) + 1
              /\ \A j \in DOMAIN pain_points : pain_points'[j] = pain_points[j]
              /\ pain_points'[Len(pain_points')].node_id = last'.node
       /\ (last'.op = "remove_pain_point" /\ last'.ret = "True") =>
              \A i \in IndexArgs :
                  (0 <= i /\ i < Len(pain_points) /\ remove_pain_point(i))
                      => /\ Len(pain_points') = Len(pain_points) - 1
                         /\ \A j \in DOMAIN pain_points' :
                               pain_points'[j]
                                   = IF j <= i THEN pain_points[j] ELSE pain_points[j + 1]
       /\ ~(last'.op \in {"add_pain_point", "remove_pain_point"} /\ last'.ret = "True") =>
              pain_points' = pain_points
      ]_vars

\* The first of two different entries was removed: the delay event that
\* was second is now first.
C30_Witness ==
    /\ last.op = "remove_pain_point"
    /\ last.ret = "True"
    /\ Len(pain_points) = 1
    /\ pain_points[1].delay_increase = Q(12)
    /\ ~pain_points[1].blocked
    /\ nodes["B"].delay = 0

\* ---------------------------------------------- claims: C26, C27, C28
\* C26: the engine is initialized only with the flight edges and the
\* shipping edges loaded and the graph built from them; an initialize that
\* raised leaves it not initialized and the status route says so; and
\* while it is not initialized find_shortest_path returns neither a route
\* nor None.
C26_ReadyOnlyWhenFullyBuilt ==
    /\ initialized =>
          /\ DOMAIN nodes = NodeIds
          /\ Len(edges) = Len(InitialEdges)
          /\ \A i \in DOMAIN edges :
                /\ edges[i].source = InitialEdges[i].source
                /\ edges[i].destination = InitialEdges[i].destination
                /\ edges[i].mode = InitialEdges[i].mode
          /\ DOMAIN graph.node = NodeIds
          /\ \A i \in DOMAIN edges :
                Usable(i) => <<edges[i].source, edges[i].destination>> \in DOMAIN graph.adj
    /\ (last.op = "initialize" /\ last.ret # "None") => ~initialized
    /\ (last.op = "status" /\ last.ret = "initialized") => initialized
    /\ (last.op = "find_shortest_path" /\ ~initialized)
          => (last.ret # "route" /\ last.ret # "None" /\ current_route = None)

\* The shipping load failed after the flight load: nodes and flight edges
\* are there, the graph is empty, and a query was refused.
C26_Witness ==
    /\ ~initialized
    /\ DOMAIN nodes = NodeIds
    /\ Len(edges) = Len(FlightEdges)
    /\ graph = EmptyGraph
    /\ last.op = "find_shortest_path"
    /\ last.node = "A"
    /\ last.ret = "RuntimeError"

\* C27: a find_shortest_path call that returns a route leaves that route,
\* from its source to its target, in current_route; a call that returns
\* None or raises leaves current_route as it was; no other call of a
\* running engine touches it, and a new engine starts with none.
C27_CurrentRouteIsLastSuccess ==
    [][/\ last'.op = "find_shortest_path" =>
              \A s \in RouteArgs, t \in RouteArgs :
                  (s = last'.node /\ find_shortest_path(s, t))
                      => IF last'.ret = "route"
                         THEN /\ WellFormedRoute(current_route', graph, s, t)
                              /\ current_route' = Route(graph, current_route'.path)
                         ELSE current_route' = current_route
       /\ last'.op = "initialize" => current_route' = None
       /\ last'.op \notin {"find_shortest_path", "initialize"}
              => current_route' = current_route
      ]_vars

\* A query from B was refused because B is blocked; the route through B
\* that an earlier query returned is still the current route.
C27_Witness ==
    /\ last.op = "find_shortest_path"
    /\ last.node = "B"
    /\ last.ret = "None"
    /\ nodes["B"].blocked
    /\ current_route.path = <<"A", "B", "C">>

QueryOps == {"find_shortest_path", "get_graph", "get_weather", "get_pain_points", "status"}

\* C28: find_shortest_path, the graph snapshot, the weather-grid snapshot
\* and the pain-point listing leave the nodes, the edge list, the weather
\* grid, the pain-point list, the weights and the effective graph as they
\* were; only find_shortest_path may change current_route.
C28_QueriesAreReadOnly ==
    [][last'.op \in QueryOps =>
          /\ UNCHANGED <<nodes, edges, weather_grid, pain_points, weights, graph, initialized>>
          /\ last'.op # "find_shortest_path" => UNCHANGED current_route
      ]_vars

\* The graph snapshot was taken while B is blocked and weather lies on the
\* block of the B - C midpoint, which its skipped edges do not show.
C28_Witness ==
    /\ last.op = "get_graph"
    /\ last.ret = "200"
    /\ nodes["B"].blocked
    /\ <<5, 0>> \in DOMAIN weather_grid
    /\ get_all_edges(edges)[2].weather_impact = 0
    /\ current_route # None

\* --------------------------------------------------- claims: C23, C24
\* C23: a path query that runs while another handler is inside a mutation
\* does not report "no route" (None) for a pair that is connected in the
\* effective graph of the current nodes and edges.  No node is blocked in
\* SpecThreads, so the graph before and the graph after every mutation
\* connect the same pairs as that graph.
C23_QueryNeverSeesTornGraph ==
    [][last'.op = "find_shortest_path" =>
          \A a \in ThreadRouteArgs :
              (a[1] = last'.node /\ find_shortest_path(a[1], a[2]) /\ last'.ret = "None")
                  => ~HasPath(BuiltGraph(nodes, weather_grid, edges), a[1], a[2])
      ]_vars

\* C24: when every handler has returned, the state is one that the
\* mutations produce when run one after the other: the delay of every node
\* is the sum of the delay increases of the pain points listed on it, and
\* the effective graph is the one _build_graph builds from the final nodes,
\* weather grid and edges.
C24_ConcurrentMutationsAreSerialized ==
    (\A h \in Handlers : handlers[h].pc = "idle") =>
        /\ \A n \in DOMAIN nodes : nodes[n].delay = PainDelay(pain_points, n)
        /\ graph = BuiltGraph(nodes, weather_grid, edges)

====
